---------------------------- MODULE Spec2Model ----------------------------
(***************************************************************************)
(* find-uniq.py: print the paths of a primary sha256sum listing whose hash *)
(* occurs in none of the other listings, minus the paths an ignore glob    *)
(* excludes.                                                               *)
(*                                                                         *)
(* Text is a sequence of one-character strings.  A listing is a sequence   *)
(* of lines as `for line in f` yields them (the newline, when the line has *)
(* one, is its last character).  POSIX flavour of os.path and fnmatch.     *)
(***************************************************************************)
EXTENDS Integers, Sequences, FiniteSets, TLC

Range(s) == {s[k] : k \in DOMAIN s}

SeqsUpTo(S, n) == UNION {[1..m -> S] : m \in 0..n}

(***************************************************************************)
(* str.strip() and str.split(maxsplit=1)                                   *)
(***************************************************************************)
Whitespace == {" ", "\t", "\n"}

RECURSIVE lstrip(_)
lstrip(s) ==
    IF s # <<>> /\ Head(s) \in Whitespace THEN lstrip(Tail(s)) ELSE s

RECURSIVE rstrip(_)
rstrip(s) ==
    IF s # <<>> /\ s[Len(s)] \in Whitespace
    THEN rstrip(SubSeq(s, 1, Len(s) - 1))
    ELSE s

strip(s) == rstrip(lstrip(s))

\* Length of the longest whitespace-free prefix of s.
RECURSIVE TokenLen(_)
TokenLen(s) ==
    IF s = <<>> \/ Head(s) \in Whitespace THEN 0 ELSE 1 + TokenLen(Tail(s))

\* s.split(maxsplit=1): [] for whitespace only, [token] when nothing follows
\* the token, else [token, remainder] with the separating run removed.
split(s) ==
    LET t == lstrip(s)
        n == TokenLen(t)
        r == lstrip(SubSeq(t, n + 1, Len(t)))
    IN  IF t = <<>> THEN <<>>
        ELSE IF r = <<>> THEN <<SubSeq(t, 1, n)>>
        ELSE <<SubSeq(t, 1, n), r>>

(***************************************************************************)
(* os.path.normpath, os.path.basename (posixpath)                          *)
(***************************************************************************)
\* s.split('/')
RECURSIVE SplitSlash(_)
SplitSlash(s) ==
    IF \A k \in DOMAIN s : s[k] # "/" THEN <<s>>
    ELSE LET k == CHOOSE j \in DOMAIN s :
                      s[j] = "/" /\ \A m \in 1..(j - 1) : s[m] # "/"
         IN  <<SubSeq(s, 1, k - 1)>> \o SplitSlash(SubSeq(s, k + 1, Len(s)))

\* '/'.join(comps)
RECURSIVE JoinSlash(_)
JoinSlash(comps) ==
    IF comps = <<>> THEN <<>>
    ELSE IF Len(comps) = 1 THEN comps[1]
    ELSE comps[1] \o <<"/">> \o JoinSlash(Tail(comps))

DotDot == <<".", ".">>

\* the loop over comps of normpath: new_comps after the components of comps
RECURSIVE NormComps(_, _, _)
NormComps(comps, new_comps, initial_slashes) ==
    IF comps = <<>> THEN new_comps
    ELSE LET comp == Head(comps)
             nxt == IF comp \in {<<>>, <<".">>} THEN new_comps
                    ELSE IF \/ comp # DotDot
                            \/ (initial_slashes = 0 /\ new_comps = <<>>)
                            \/ (new_comps # <<>> /\ new_comps[Len(new_comps)] = DotDot)
                         THEN Append(new_comps, comp)
                    ELSE IF new_comps # <<>>
                         THEN SubSeq(new_comps, 1, Len(new_comps) - 1)
                    ELSE new_comps
         IN  NormComps(Tail(comps), nxt, initial_slashes)

StartsWith(s, n) == Len(s) >= n /\ \A k \in 1..n : s[k] = "/"

normpath(path) ==
    IF path = <<>> THEN <<".">>
    ELSE LET initial_slashes ==
                 IF ~StartsWith(path, 1) THEN 0
                 ELSE IF StartsWith(path, 2) /\ ~StartsWith(path, 3) THEN 2
                 ELSE 1
             joined == JoinSlash(NormComps(SplitSlash(path), <<>>, initial_slashes))
             res == [k \in 1..initial_slashes |-> "/"] \o joined
         IN  IF res = <<>> THEN <<".">> ELSE res

basename(p) ==
    LET slashes == {k \in DOMAIN p : p[k] = "/"}
        i == IF slashes = {} THEN 0
             ELSE CHOOSE k \in slashes : \A m \in slashes : m <= k
    IN  SubSeq(p, i + 1, Len(p))

(***************************************************************************)
(* fnmatch.fnmatch: whole-string shell glob with * ? [seq] [!seq].         *)
(* Patterns here contain no '-', so a class is the set of its characters.  *)
(***************************************************************************)
\* least index j >= from with pat[j] = "]", or Len(pat) + 1
RECURSIVE FindClose(_, _)
FindClose(pat, from) ==
    IF from > Len(pat) \/ pat[from] = "]" THEN from ELSE FindClose(pat, from + 1)

RECURSIVE fnmatch(_, _)
fnmatch(name, pat) ==
    IF pat = <<>> THEN name = <<>>
    ELSE LET c == Head(pat)
             rest == Tail(pat)
         IN  IF c = "*"
             THEN \E k \in 0..Len(name) : fnmatch(SubSeq(name, k + 1, Len(name)), rest)
             ELSE IF c = "?"
             THEN name # <<>> /\ fnmatch(Tail(name), rest)
             ELSE IF c = "["
             THEN LET neg == rest # <<>> /\ rest[1] = "!"
                      j0 == IF neg THEN 2 ELSE 1
                      j1 == IF j0 <= Len(rest) /\ rest[j0] = "]" THEN j0 + 1 ELSE j0
                      j == FindClose(rest, j1)
                  IN  IF j > Len(rest)
                      THEN name # <<>> /\ Head(name) = "[" /\ fnmatch(Tail(name), rest)
                      ELSE /\ name # <<>>
                           /\ (Head(name) \in Range(SubSeq(rest, j0, j - 1))) # neg
                           /\ fnmatch(Tail(name), SubSeq(rest, j + 1, Len(rest)))
             ELSE name # <<>> /\ Head(name) = c /\ fnmatch(Tail(name), rest)


(***************************************************************************)
(* Listings.  A line of a listing is written as the fields it is made of,  *)
(* <lead><hash><sep><path><trail>; the program reads only its text.  A     *)
(* blank line has an empty hash and an empty path.                         *)
(***************************************************************************)
Entry(lead, hash, sep, path, trail) ==
    [lead |-> lead, hash |-> hash, sep |-> sep, path |-> path, trail |-> trail]

TextOf(e) == e.lead \o e.hash \o e.sep \o e.path \o e.trail

FileText(file) == [k \in DOMAIN file |-> TextOf(file[k])]

IsBlank(e) == e.hash = <<>>

\* Only the last line of a file can lack its newline.
WellFormed(file) ==
    \A k \in DOMAIN file :
        LET t == TextOf(file[k])
        IN  k < Len(file) => (t # <<>> /\ t[Len(t)] = "\n")

NL == <<"\n">>
SP == <<" ">>

path_a == <<"a", ".", "t">>
path_dot_a == <<".", "/", "a", ".", "t">>
path_abs_a == <<"/", "d", "/", "a", ".", "t">>
path_sp == <<"d", "/", "a", " ", "b">>
path_dd_b == <<"d", "/", "/", "b">>
path_y == <<"/", "y">>

\* Other listings: an empty file; one record; a blank line, a padded record
\* and a last line without newline; one hash twice, once without a path.
other_empty == <<>>

other_one == << Entry(<<>>, <<"1">>, SP, path_y, NL) >>

other_padded ==
    << Entry(<<>>, <<>>, <<>>, <<>>, NL),
       Entry(SP, <<"2">>, <<"\t", " ">>, <<"q">>, <<" ", "\n">>),
       Entry(<<>>, <<"1">>, SP, <<"z">>, <<>>) >>

other_twice ==
    << Entry(<<>>, <<"1", "2">>, SP, path_a, NL),
       Entry(<<>>, <<"1", "2">>, <<>>, <<>>, NL) >>

OtherFiles == {other_empty, other_one, other_padded, other_twice}

FewOthers ==
    {<<>>, <<other_empty>>, <<other_one>>, <<other_padded, other_twice>>}

\* Primary lines: plain, padded with a path holding a blank, a bare hash,
\* a blank line, a line without newline, an absolute path.
line_plain == Entry(<<>>, <<"1">>, SP, path_a, NL)
line_padded == Entry(SP, <<"2">>, <<"\t", " ">>, path_sp, <<" ", "\n">>)
line_bare == Entry(<<>>, <<"1", "2">>, <<>>, <<>>, NL)
line_blank == Entry(SP, <<>>, <<>>, <<>>, NL)
line_no_nl == Entry(<<>>, <<"1", "2">>, <<" ", " ">>, path_dot_a, <<>>)
line_abs == Entry(<<>>, <<"3">>, SP, path_abs_a, NL)

PrimaryEntries ==
    {line_plain, line_padded, line_bare, line_blank, line_no_nl, line_abs}

FewPrimaries ==
    { <<>>,
      <<line_abs, line_padded>>,
      <<line_plain, line_blank, line_abs, line_no_nl>>,
      <<line_bare, line_padded, line_plain>> }

\* Primary lines for the pattern matcher: one unmatched hash, paths whose
\* normalized form, raw form and basename differ.
MatchEntries ==
    { Entry(<<>>, <<"3">>, SP, p, NL) :
        p \in {path_a, path_dot_a, path_abs_a, path_dd_b} }
    \cup { Entry(<<>>, <<"3">>, <<>>, <<>>, NL) }

pat_t == <<"*", ".", "t">>
pat_a == <<"a", ".", "t">>
pat_db == <<"d", "/", "b">>
pat_dot == <<".", "/", "*">>
pat_cls == <<"[", "!", "a", "]">>
pat_q == <<"?">>

Patterns == {pat_t, pat_a, pat_db, pat_dot, pat_cls}

MaxOthers == 2
MaxPrimary == 3
MaxMatchLines == 2
MaxPats == 2

VARIABLES
    primary,          \* args.primary: the lines of the primary listing
    others,           \* args.others: the other listings, in argument order
    ignore_patterns,  \* args.ignore
    pc,               \* "start", "load", "stream", "done", "usage", "error"
    fidx,             \* position of `for fpath in args.others`
    other_shas,
    lineno,           \* lines of the primary listing consumed by `for line in f`
    out,              \* standard output, one element per print()
    opened,           \* files open() was called on
    exit              \* exit status, -1 while running

vars == <<primary, others, ignore_patterns, pc, fidx, other_shas, lineno, out,
          opened, exit>>

(***************************************************************************)
(* load_hashes_set                                                         *)
(***************************************************************************)
\* the shas one line adds (lines 33-39)
LineSha(line) ==
    LET l == strip(line)
        parts == split(l)
    IN  IF l = <<>> THEN {}
        ELSE IF parts = <<>> THEN {}
        ELSE {parts[1]}

load_hashes_set(lines) == UNION {LineSha(lines[k]) : k \in DOMAIN lines}

updateReplace(shas, new) == new

\* other_shas.update(...)
update(shas, new) == shas \cup new

(***************************************************************************)
(* process_primary_stream                                                  *)
(***************************************************************************)
MatchesNoBasename(file_path, pat) ==
    fnmatch(normpath(file_path), pat) \/ fnmatch(file_path, pat)

\* the condition of line 92
Matches(file_path, pat) ==
    \/ fnmatch(normpath(file_path), pat)
    \/ fnmatch(file_path, pat)
    \/ fnmatch(basename(file_path), pat)

SkipFirstOnly(file_path, pats) ==
    pats # <<>> /\ Matches(file_path, Head(pats))

\* the loop of lines 90-94: stops at the first pattern that matches
RECURSIVE Skip(_, _)
Skip(file_path, pats) ==
    IF pats = <<>> THEN FALSE
    ELSE IF Matches(file_path, Head(pats)) THEN TRUE
    ELSE Skip(file_path, Tail(pats))

LineOutputDropBare(line, shas, pats) ==
    LET l == strip(line)
        parts == split(l)
    IN  IF l = <<>> \/ Len(parts) < 2 THEN <<>>
        ELSE IF parts[1] \in shas THEN <<>>
        ELSE IF Skip(parts[2], pats) THEN <<>>
        ELSE <<parts[2]>>

LineOutputNoShaTest(line, shas, pats) ==
    LET l == strip(line)
        parts == split(l)
        file_path == IF Len(parts) > 1 THEN parts[2] ELSE <<>>
    IN  IF l = <<>> THEN <<>>
        ELSE IF Skip(file_path, pats) THEN <<>>
        ELSE <<file_path>>

\* what one line prints (lines 79-97): nothing, or its path
LineOutput(line, shas, pats) ==
    LET l == strip(line)
        parts == split(l)
        sha == parts[1]
        file_path == IF Len(parts) > 1 THEN parts[2] ELSE <<>>
    IN  IF l = <<>> THEN <<>>
        ELSE IF parts = <<>> THEN <<>>
        ELSE IF sha \in shas THEN <<>>
        ELSE IF Skip(file_path, pats) THEN <<>>
        ELSE <<file_path>>

printPrepend(stdout, lines) == lines \o stdout

printOnce(stdout, lines) ==
    IF lines # <<>> /\ lines[1] \in Range(stdout) THEN stdout ELSE stdout \o lines

\* print(file_path)
print(stdout, lines) == stdout \o lines

\* the output of a whole pass over the lines of the primary listing
RECURSIVE process_primary_stream(_, _, _)
process_primary_stream(lines, shas, pats) ==
    IF lines = <<>> THEN <<>>
    ELSE LineOutput(Head(lines), shas, pats)
             \o process_primary_stream(Tail(lines), shas, pats)

(***************************************************************************)
(* __main__                                                                *)
(***************************************************************************)
NoOthersNever(args_others) == FALSE

\* `not args.others`
NoOthers(args_others) == args_others = <<>>

LoopDoneAfterFirst(k, args_others) == k > 1

\* `for fpath in args.others` is exhausted
LoopDone(k, args_others) == k > Len(args_others)

ExitStatusZero(outcome) == 0

\* the status the interpreter exits with: 0 at the end of the script, 2 from
\* parser.error, 1 for an uncaught exception
ExitStatus(outcome) ==
    CASE outcome = "done" -> 0
      [] outcome = "usage" -> 2
      [] outcome = "error" -> 1

InitCommon ==
    /\ pc = "start"
    /\ fidx = 1
    /\ other_shas = {}
    /\ lineno = 0
    /\ out = <<>>
    /\ opened = {}
    /\ exit = -1

\* every list of other listings, a few primary listings
Init ==
    /\ others \in SeqsUpTo(OtherFiles, MaxOthers)
    /\ primary \in FewPrimaries
    /\ ignore_patterns \in {<<>>, <<pat_t>>}
    /\ InitCommon

\* every primary listing, a few lists of other listings
InitStream ==
    /\ others \in FewOthers
    /\ primary \in {f \in SeqsUpTo(PrimaryEntries, MaxPrimary) : WellFormed(f)}
    /\ ignore_patterns \in {<<>>, <<pat_t>>, <<pat_q>>}
    /\ InitCommon

\* every pattern list over paths in several spellings
InitMatch ==
    /\ others \in {<<>>, <<other_one>>}
    /\ primary \in SeqsUpTo(MatchEntries, MaxMatchLines)
    /\ ignore_patterns \in SeqsUpTo(Patterns, MaxPats)
    /\ InitCommon

Inputs == <<primary, others, ignore_patterns>>

\* lines 117-118: parser.error prints the usage and exits with status 2
UsageError ==
    /\ pc = "start"
    /\ NoOthers(others)
    /\ pc' = "usage"
    /\ exit' = ExitStatus("usage")
    /\ UNCHANGED <<Inputs, fidx, other_shas, lineno, out, opened>>

\* line 121
StartLoading ==
    /\ pc = "start"
    /\ ~NoOthers(others)
    /\ pc' = "load"
    /\ other_shas' = {}
    /\ fidx' = 1
    /\ UNCHANGED <<Inputs, lineno, out, opened, exit>>

\* lines 122-123, one other listing read to its end
LoadOther ==
    /\ pc = "load"
    /\ ~LoopDone(fidx, others)
    /\ opened' = opened \cup {<<"other", fidx>>}
    /\ other_shas' = update(other_shas, load_hashes_set(FileText(others[fidx])))
    /\ fidx' = fidx + 1
    /\ UNCHANGED <<Inputs, pc, lineno, out, exit>>

\* lines 31-32 raise (OSError on open, UnicodeDecodeError on a read): the
\* exception leaves load_hashes_set and __main__
LoadOtherFail ==
    /\ pc = "load"
    /\ ~LoopDone(fidx, others)
    /\ opened' = opened \cup {<<"other", fidx>>}
    /\ pc' = "error"
    /\ exit' = ExitStatus("error")
    /\ UNCHANGED <<Inputs, fidx, other_shas, lineno, out>>

\* lines 125, 76-77: the primary listing is opened
OpenPrimary ==
    /\ pc = "load"
    /\ LoopDone(fidx, others)
    /\ opened' = opened \cup {<<"primary", 0>>}
    /\ pc' = "stream"
    /\ lineno' = 0
    /\ UNCHANGED <<Inputs, fidx, other_shas, out, exit>>

\* line 77 raises OSError
OpenPrimaryFail ==
    /\ pc = "load"
    /\ LoopDone(fidx, others)
    /\ opened' = opened \cup {<<"primary", 0>>}
    /\ pc' = "error"
    /\ exit' = ExitStatus("error")
    /\ UNCHANGED <<Inputs, fidx, other_shas, lineno, out>>

\* lines 78-97, one iteration of `for line in f`
ProcessLine ==
    /\ pc = "stream"
    /\ lineno < Len(primary)
    /\ lineno' = lineno + 1
    /\ out' = print(out, LineOutput(TextOf(primary[lineno + 1]), other_shas,
                                    ignore_patterns))
    /\ UNCHANGED <<Inputs, pc, fidx, other_shas, opened, exit>>

\* line 78 raises on a read (UnicodeDecodeError, OSError): the lines before
\* the failing read have been processed, what they printed stays printed
StreamFail ==
    /\ pc = "stream"
    /\ pc' = "error"
    /\ exit' = ExitStatus("error")
    /\ UNCHANGED <<Inputs, fidx, other_shas, lineno, out, opened>>

\* the loop of line 78 ends, the program ends
Finish ==
    /\ pc = "stream"
    /\ lineno = Len(primary)
    /\ pc' = "done"
    /\ exit' = ExitStatus("done")
    /\ UNCHANGED <<Inputs, fidx, other_shas, lineno, out, opened>>

Next ==
    \/ UsageError
    \/ StartLoading
    \/ LoadOther
    \/ LoadOtherFail
    \/ OpenPrimary
    \/ OpenPrimaryFail
    \/ ProcessLine
    \/ StreamFail
    \/ Finish

Spec == Init /\ [][Next]_vars

SpecStream == InitStream /\ [][Next]_vars

SpecMatch == InitMatch /\ [][Next]_vars

(***************************************************************************)
(* What the listings say, read off the fields of their lines               *)
(***************************************************************************)
\* the hashes of the records of the other listings
OtherHashes ==
    UNION {{others[f][k].hash : k \in DOMAIN others[f]} : f \in DOMAIN others}
        \ {<<>>}

Forms(path) == {normpath(path), path, basename(path)}

\* some pattern matches some form of the path
Excluded(path, pats) ==
    \E pat \in Range(pats) : \E form \in Forms(path) : fnmatch(form, pat)

\* line k of the primary listing is a record with a hash of its own and a
\* path no pattern excludes
Qualifies(k) ==
    /\ ~IsBlank(primary[k])
    /\ primary[k].hash \notin OtherHashes
    /\ ~Excluded(primary[k].path, ignore_patterns)

\* the paths of the lines of S from line k on, in line order
RECURSIVE PathsFrom(_, _)
PathsFrom(k, S) ==
    IF k > Len(primary) THEN <<>>
    ELSE (IF k \in S THEN <<primary[k].path>> ELSE <<>>) \o PathsFrom(k + 1, S)

Count(seq, x) == Cardinality({k \in DOMAIN seq : seq[k] = x})

Perms(seq) ==
    {[k \in DOMAIN seq |-> seq[f[k]]] : f \in Permutations(DOMAIN seq)}

QualifyingLines(n) == {k \in 1..n : Qualifies(k)}

PrimaryOpened == <<"primary", 0>> \in opened

(***************************************************************************)
(* Claims                                                                  *)
(***************************************************************************)

\* C1: when a run completes, the set of paths written is exactly the set of
\* paths of the primary records whose hash is in no other listing and whose
\* path no ignore pattern excludes.
C1_OutputSet ==
    pc = "done" =>
        Range(out) = {primary[k].path : k \in QualifyingLines(Len(primary))}

C1_Witness ==
    /\ pc = "done"
    /\ out # <<>>
    /\ \E k \in DOMAIN primary :
           ~IsBlank(primary[k]) /\ primary[k].hash \in OtherHashes
    /\ \E k \in DOMAIN primary :
           /\ ~IsBlank(primary[k])
           /\ primary[k].hash \notin OtherHashes
           /\ Excluded(primary[k].path, ignore_patterns)

\* C2: the output is always a subsequence of the paths of the records of the
\* primary listing read so far, in the order of their lines.
C2_OrderPreserved ==
    \E S \in SUBSET {k \in 1..lineno : ~IsBlank(primary[k])} :
        out = PathsFrom(1, S)

C2_Witness ==
    /\ pc = "done"
    /\ Len(out) >= 2
    /\ out[1] # out[2]
    /\ Len(out) < Cardinality({k \in DOMAIN primary : ~IsBlank(primary[k])})

\* C3: when a run completes, the output has one line per qualifying line of
\* the primary listing, and a path is written as many times as qualifying
\* lines carry it (repeated records are not merged).
C3_OncePerLine ==
    pc = "done" =>
        /\ Len(out) = Cardinality(QualifyingLines(Len(primary)))
        /\ \A k \in DOMAIN primary :
               Count(out, primary[k].path) =
                   Cardinality({j \in QualifyingLines(Len(primary)) :
                                    primary[j].path = primary[k].path})

C3_Witness ==
    /\ pc = "done"
    /\ \E j, k \in QualifyingLines(Len(primary)) :
           /\ j < k
           /\ primary[j] = primary[k]
           /\ Count(out, primary[k].path) = 2

\* C4: with no other listing the run ends in the usage error, with a
\* non-zero exit status, nothing written and no file opened.
C4_UsageError ==
    (others = <<>> /\ pc # "start") =>
        /\ pc = "usage"
        /\ exit > 0
        /\ out = <<>>
        /\ opened = {}

C4_Witness == pc = "usage" /\ primary # <<>>

\* C5 as stated: a run that ends in the error state has a non-zero exit
\* status and has written no path.
C5_NoPartialOutput == pc = "error" => (exit > 0 /\ out = <<>>)

\* C5 amended: a failure ends the run (no step follows it) with a non-zero
\* exit status; a failure while loading an other listing or opening the
\* primary listing leaves the output empty; a failure while streaming leaves
\* exactly the paths of the qualifying lines read before it.
C5_AbortKeepsPrefix ==
    [][ /\ pc # "error"
        /\ pc' = "error" =>
               /\ exit' > 0
               /\ pc = "load" => out' = <<>>
               /\ out' = PathsFrom(1, QualifyingLines(lineno')) ]_vars

C5_Witness ==
    /\ pc = "error"
    /\ out # <<>>
    /\ lineno < Len(primary)
    /\ Qualifies(lineno + 1)

\* C6: a line with a hash of its own is skipped exactly when some pattern
\* matches the normalized path, the raw path or the basename; so a pattern
\* matching the basename skips it, and an empty pattern list skips nothing.
C6_ThreeForms ==
    [][ (pc = "stream" /\ lineno' = lineno + 1) =>
            LET e == primary[lineno'] IN
            (~IsBlank(e) /\ e.hash \notin other_shas) =>
                /\ (out' = out) <=> Excluded(e.path, ignore_patterns)
                /\ (out' # out) <=> (out' = Append(out, e.path))
                /\ (\E pat \in Range(ignore_patterns) :
                        fnmatch(basename(e.path), pat)) => out' = out
                /\ ignore_patterns = <<>> => out' = Append(out, e.path) ]_vars

C6_Witness ==
    /\ pc = "done"
    /\ \E k \in DOMAIN primary :
           LET p == primary[k].path IN
           /\ p \notin Range(out)
           /\ \E pat \in Range(ignore_patterns) :
                  /\ fnmatch(basename(p), pat)
                  /\ ~fnmatch(p, pat)
                  /\ ~fnmatch(normpath(p), pat)
    /\ \E k \in DOMAIN primary :
           LET p == primary[k].path IN
           /\ p \notin Range(out)
           /\ \E pat \in Range(ignore_patterns) :
                  /\ fnmatch(normpath(p), pat)
                  /\ ~fnmatch(p, pat)
                  /\ ~fnmatch(basename(p), pat)

\* C7: once the loading loop has finished, the comparison set is the set of
\* the hashes of all records of all other listings, however often a hash
\* occurs, and the completed output depends on that set alone.
C7_ComparisonSet ==
    ((pc = "load" /\ fidx > Len(others)) \/ pc \in {"stream", "done"}) =>
        /\ other_shas = OtherHashes
        /\ pc = "done" => out = PathsFrom(1, QualifyingLines(Len(primary)))

C7_Witness ==
    /\ pc = "done"
    /\ \E f, g \in DOMAIN others :
           /\ f < g
           /\ \E j \in DOMAIN others[f], k \in DOMAIN others[g] :
                  /\ ~IsBlank(others[f][j])
                  /\ others[f][j].hash = others[g][k].hash
                  /\ \E n \in DOMAIN primary :
                         primary[n].hash = others[f][j].hash
    /\ \E f \in DOMAIN others : \E j, k \in DOMAIN others[f] :
           j < k /\ ~IsBlank(others[f][j])
                 /\ others[f][j].hash = others[f][k].hash

\* C8: a completed run's output is the output of the stream filter for every
\* permutation of the ignore patterns.
C8_PatternOrder ==
    pc = "done" =>
        \A perm \in Perms(ignore_patterns) :
            process_primary_stream(FileText(primary), other_shas, perm) = out

C8_Witness ==
    /\ pc = "done"
    /\ Len(ignore_patterns) = 2
    /\ \E k \in DOMAIN primary :
           /\ ~Matches(primary[k].path, ignore_patterns[1])
           /\ Matches(primary[k].path, ignore_patterns[2])
           /\ primary[k].path \notin Range(out)
    /\ out # <<>>

\* C9: a line holding only a hash is the record (hash, empty path): when the
\* hash is its own and the empty path is not excluded, the line writes the
\* empty path; a blank line writes nothing.
C9_BareHash ==
    [][ (pc = "stream" /\ lineno' = lineno + 1) =>
            LET e == primary[lineno'] IN
            /\ (/\ ~IsBlank(e)
                /\ e.path = <<>>
                /\ e.hash \notin OtherHashes
                /\ ~Excluded(<<>>, ignore_patterns)) => out' = Append(out, <<>>)
            /\ IsBlank(e) => out' = out ]_vars

C9_Witness ==
    /\ pc = "done"
    /\ <<>> \in Range(out)
    /\ \E k \in DOMAIN primary : IsBlank(primary[k])

\* C10: the primary listing is opened, and a path written, only after every
\* other listing has been loaded; from then on the comparison set does not
\* change; a failure in an other listing happens with the output empty.
C10_LoadThenStream ==
    [][ /\ (PrimaryOpened' \/ out' # <<>>) =>
               /\ \A f \in DOMAIN others : <<"other", f>> \in opened'
               /\ other_shas' = OtherHashes
        /\ PrimaryOpened => other_shas' = other_shas
        /\ (pc = "load" /\ ~PrimaryOpened' /\ pc' = "error") => out' = <<>>
      ]_vars

C10_Witness ==
    /\ pc = "stream"
    /\ out # <<>>
    /\ Len(others) = 2
    /\ other_shas # {}
=============================================================================
